---------------------------- MODULE Spec2Model ----------------------------
(* Model of the PWM servo driver (src/servo.c): the servo_dev state, the   *)
(* delayed work item that runs servo_motion_tick, the ioctl commands and   *)
(* the PWM backend calls they make.                                        *)
EXTENDS Integers, Sequences, FiniteSets, TLC

(***************************************************************************)
(* Bounds of the model.                                                    *)
(***************************************************************************)
\* Number of concurrent ioctl callers.
NumCallers == 1

\* Half-width of the window of start and target angles of the motion runs.
MotionSpan == 3

(***************************************************************************)
(* Program constants.                                                      *)
(***************************************************************************)
SERVO_DEFAULT_PERIOD_NS == 20000000
SERVO_DEFAULT_MIN_NS == 1000000
SERVO_DEFAULT_MAX_NS == 2000000
DEFAULT_MIN_ANGLE == 0
DEFAULT_MAX_ANGLE == 180
DEFAULT_ANGLE == 90
TICK_MS == 20

(***************************************************************************)
(* 32-bit unsigned arithmetic.  An unsigned int is a pair <<hi, lo>> of    *)
(* 16-bit halves, so that products wrap modulo 2^32 as they do in C.       *)
(* Each operator evaluates its arguments once.                             *)
(***************************************************************************)
W8 == 16 * 16
W16 == W8 * W8

\* The only element of a one-element set: Only({e(x) : x \in {a}}) evaluates a once.
Only(S) == CHOOSE r \in S : TRUE

U32(n) == <<n \div W16, n % W16>>

U32ToInt(a) == Only({x[1] * W16 + x[2] : x \in {a}})

U32Add(a, b) ==
    Only({<<(x[1] + y[1] + ((x[2] + y[2]) \div W16)) % W16, (x[2] + y[2]) % W16>> :
            x \in {a}, y \in {b}})

U32Sub(a, b) ==
    Only({<<(x[1] - y[1] - (IF x[2] < y[2] THEN 1 ELSE 0) + 2 * W16) % W16,
            (x[2] - y[2] + W16) % W16>> :
            x \in {a}, y \in {b}})

\* Exact product of two 16-bit halves, as a pair.
Mul16(x, y) ==
    Only({<<(t[1] \div W8) + (t[2] \div W16), t[2] % W16>> :
            t \in {<<(x \div W8) * y, ((((x \div W8) * y) % W8) * W8) + (x % W8) * y>>}})

\* Low 32 bits of the product.
U32Mul(a, b) ==
    Only({Only({<<(ll[1] + Mul16(x[1], y[2])[2] + Mul16(x[2], y[1])[2]) % W16, ll[2]>> :
                  ll \in {Mul16(x[2], y[2])}}) :
            x \in {a}, y \in {b}})

\* Unsigned division by a divisor d with 0 < d <= 2^15.
U32Div(a, d) ==
    Only({<<x[1] \div e, ((x[1] % e) * W16 + x[2]) \div e>> : x \in {a}, e \in {d}})

U32Le(a, b) == a[1] < b[1] \/ (a[1] = b[1] /\ a[2] <= b[2])

\* (unsigned int) of an int.
IntToU32(n) == Only({IF m >= 0 THEN U32(m) ELSE U32Sub(<<0, 0>>, U32(-m)) : m \in {n}})

Min(a, b) == IF a < b THEN a ELSE b

(***************************************************************************)
(* map_angle_to_pulse_ns                                                   *)
(***************************************************************************)
map_angle_to_pulse_ns(lim, angle) ==
    LET span == U32Sub(lim.max_pulse_ns, lim.min_pulse_ns)
        a1 == IF angle < lim.min_angle THEN lim.min_angle ELSE angle
        a2 == IF a1 > lim.max_angle THEN lim.max_angle ELSE a1
    IN  U32Add(lim.min_pulse_ns,
               U32Div(U32Mul(span, IntToU32(a2 - lim.min_angle)),
                      lim.max_angle - lim.min_angle))


(***************************************************************************)
(* State.                                                                  *)
(***************************************************************************)
VARIABLES
    dev,            \* "init" (allocated, zeroed), "ready" (probe returned 0), "failed",
                    \* "removing" (servo_remove past its cancel), "removed"
    enabled,        \* sd->enabled
    cur_angle,      \* sd->cur_angle
    target_angle,   \* sd->target_angle
    speed_dps,      \* sd->speed_dps
    limits,         \* sd->limits
    lock,           \* sd->lock: "free", "ioctl" or "tick"
    pending,        \* sd->motion_work is queued (timer armed or on the queue)
    tick_pc,        \* where the worker is in servo_motion_tick
    tick_ret,       \* what servo_apply_angle returned to the running tick
    caller,         \* per caller: position in servo_unlocked_ioctl and its locals
    returned,       \* the command that returned in the step that led here, if any
    pwm_on,         \* backend: output enabled (pwm_enable / pwm_disable)
    pwm_duty,       \* backend: duty of the last pwm_config that succeeded
    hw_calls,       \* backend: the calls made to it by the step that led here
    quiet,          \* the client has stopped issuing commands, the backend stopped failing
    meter           \* tick counter of a motion run: on, the angle it started from, ticks run

vars == <<dev, enabled, cur_angle, target_angle, speed_dps, limits, lock, pending,
          tick_pc, tick_ret, caller, returned, pwm_on, pwm_duty, hw_calls, quiet, meter>>

sd_vars == <<enabled, cur_angle, target_angle, speed_dps, limits>>

hw_vars == <<pwm_on, pwm_duty>>

tick_vars == <<pending, tick_pc, tick_ret>>

Callers == 1 .. NumCallers

ZeroLimits ==
    [min_angle |-> 0, max_angle |-> 0, min_pulse_ns |-> U32(0), max_pulse_ns |-> U32(0)]

DefaultLimits ==
    [min_angle |-> DEFAULT_MIN_ANGLE, max_angle |-> DEFAULT_MAX_ANGLE,
     min_pulse_ns |-> U32(SERVO_DEFAULT_MIN_NS),
     max_pulse_ns |-> U32(SERVO_DEFAULT_MAX_NS)]

\* The servo state a command or get_* can observe.
SdState ==
    [enabled |-> enabled, cur_angle |-> cur_angle, target_angle |-> target_angle,
     speed_dps |-> speed_dps, limits |-> limits]

IdleCaller == [pc |-> "idle", cmd |-> "NONE", val |-> 0, lims |-> ZeroLimits]

\* What a command gives back: ret, whether a backend call failed while it ran, and
\* the val or lims a GET copies to the user.
Returned(t, c, retv, failed, v, l) ==
    [by |-> t, cmd |-> c, ret |-> retv, hw_failed |-> failed, val |-> v, lims |-> l]

NoReturn == Returned(0, "NONE", "OK", FALSE, 0, ZeroLimits)

\* One call to the PWM backend: which, with which duty (pwm_config), whether it
\* succeeded, sd->enabled when it was made and who made it.
HwCall(op, duty, ok, en, who) ==
    [op |-> op, duty |-> duty, ok |-> ok, sd_enabled |-> en, by |-> who]

\* Outcomes a backend call can have: it may fail until the backend is quiet.
HwOutcomes == IF quiet THEN {TRUE} ELSE BOOLEAN

MeterOff == [on |-> FALSE, from |-> 0, n |-> 0]

Init ==
    /\ dev = "init"
    /\ enabled = 0
    /\ cur_angle = 0
    /\ target_angle = 0
    /\ speed_dps = 0
    /\ limits = ZeroLimits
    /\ lock = "free"
    /\ pending = FALSE
    /\ tick_pc = "idle"
    /\ tick_ret = "OK"
    /\ caller = [t \in Callers |-> IdleCaller]
    /\ returned = NoReturn
    /\ pwm_on = FALSE
    /\ pwm_duty = U32(0)
    /\ hw_calls = <<>>
    /\ quiet = FALSE
    /\ meter = MeterOff

(***************************************************************************)
(* servo_probe: the defaults, then one pwm_config for the default angle.   *)
(***************************************************************************)
Probe ==
    /\ returned' = NoReturn
    /\ dev = "init"
    /\ \E ok \in HwOutcomes :
        /\ limits' = DefaultLimits
        /\ cur_angle' = DEFAULT_ANGLE
        /\ target_angle' = DEFAULT_ANGLE
        /\ speed_dps' = 0
        /\ enabled' = 0
        /\ hw_calls' = <<HwCall("config", map_angle_to_pulse_ns(DefaultLimits, DEFAULT_ANGLE),
                               ok, 0, "probe")>>
        /\ pwm_duty' = IF ok THEN map_angle_to_pulse_ns(DefaultLimits, DEFAULT_ANGLE)
                       ELSE pwm_duty
        /\ dev' = IF ok THEN "ready" ELSE "failed"
    /\ UNCHANGED <<lock, tick_vars, caller, pwm_on, quiet, meter>>

(***************************************************************************)
(* servo_apply_angle: no backend call while disabled; cur_angle follows    *)
(* the angle only when pwm_config succeeds.  The result says whether the   *)
(* backend was called (hw), with which duty, what is returned and the new  *)
(* cur_angle.                                                              *)
(***************************************************************************)
\* servo_apply_angle that forgets sd->cur_angle = angle.
servo_apply_angle_NoCurUpdate(en, lim, cur, angle, ok) ==
    IF en = 0
    THEN [hw |-> FALSE, duty |-> U32(0), ret |-> "OK", cur |-> cur]
    ELSE [hw |-> TRUE, duty |-> map_angle_to_pulse_ns(lim, angle),
          ret |-> IF ok THEN "OK" ELSE "HWERR",
          cur |-> cur]

servo_apply_angle(en, lim, cur, angle, ok) ==
    IF en = 0
    THEN [hw |-> FALSE, duty |-> U32(0), ret |-> "OK", cur |-> cur]
    ELSE [hw |-> TRUE, duty |-> map_angle_to_pulse_ns(lim, angle),
          ret |-> IF ok THEN "OK" ELSE "HWERR",
          cur |-> IF ok THEN angle ELSE cur]

\* BackendAfterApply in which the backend keeps the duty of its first pwm_config.
BackendAfterApply_DutyStuck(r, en, who) ==
    /\ hw_calls' = IF r.hw THEN <<HwCall("config", r.duty, r.ret = "OK", en, who)>> ELSE <<>>
    /\ pwm_duty' = pwm_duty

\* The backend after servo_apply_angle returned r, called by `who` with sd->enabled = en.
BackendAfterApply(r, en, who) ==
    /\ hw_calls' = IF r.hw THEN <<HwCall("config", r.duty, r.ret = "OK", en, who)>> ELSE <<>>
    /\ pwm_duty' = IF r.hw /\ r.ret = "OK" THEN r.duty ELSE pwm_duty

\* StepDeg truncating instead of rounding.
StepDeg_Truncating(speed) ==
    LET raw == U32ToInt(U32Div(U32Mul(IntToU32(speed), U32(TICK_MS)), 1000))
    IN  IF raw <= 0 THEN 1 ELSE raw

\* step_deg of servo_motion_tick: the product is computed in unsigned int.
StepDeg(speed) ==
    LET raw == U32ToInt(U32Div(U32Add(U32Mul(IntToU32(speed), U32(TICK_MS)), U32(500)),
                               1000))
    IN  IF raw <= 0 THEN 1 ELSE raw

\* NextAngle stepping by the full step, without min().
NextAngle_NoMin(cur, target, step) ==
    IF target - cur > 0 THEN cur + step ELSE cur - step

\* next_angle of servo_motion_tick.
NextAngle(cur, target, step) ==
    LET delta == target - cur
    IN  IF delta > 0 THEN cur + Min(step, delta) ELSE cur - Min(step, -delta)

\* TickResched that never queues the work item again.
TickResched_Never(en, speed, cur, target, pend) == pend

\* TickResched without the test cur_angle != target_angle.
TickResched_NoTargetTest(en, speed, cur, target, pend) ==
    IF en # 0 /\ speed > 0 THEN TRUE ELSE pend

\* The pending bit after the tick's out_resched_if_needed.
TickResched(en, speed, cur, target, pend) ==
    IF en # 0 /\ speed > 0 /\ cur # target THEN TRUE ELSE pend

(***************************************************************************)
(* The worker: servo_motion_tick as run by the delayed work item.          *)
(***************************************************************************)
\* The timer expires and the worker starts the work function.
TickFire ==
    /\ returned' = NoReturn
    /\ pending
    /\ tick_pc = "idle"
    /\ pending' = FALSE
    /\ tick_pc' = "lock"
    /\ hw_calls' = <<>>
    /\ UNCHANGED <<dev, sd_vars, lock, tick_ret, caller, hw_vars, quiet, meter>>

\* TickLock that does not wait for the mutex.
TickLock_NoWait ==
    /\ returned' = NoReturn
    /\ tick_pc = "lock"
    /\ lock' = "tick"
    /\ tick_pc' = "body"
    /\ hw_calls' = <<>>
    /\ UNCHANGED <<dev, sd_vars, pending, tick_ret, caller, hw_vars, quiet, meter>>

\* mutex_lock(&sd->lock)
TickLock ==
    /\ returned' = NoReturn
    /\ tick_pc = "lock"
    /\ lock = "free"
    /\ lock' = "tick"
    /\ tick_pc' = "body"
    /\ hw_calls' = <<>>
    /\ UNCHANGED <<dev, sd_vars, pending, tick_ret, caller, hw_vars, quiet, meter>>

\* What the tick does between its early-out test and the reschedule, given the
\* outcome of its pwm_config: the result of servo_apply_angle, if called.
TickApply(ok) ==
    IF enabled = 0 \/ speed_dps = 0 \/ cur_angle = target_angle
    THEN [hw |-> FALSE, duty |-> U32(0), ret |-> "OK", cur |-> cur_angle]
    ELSE servo_apply_angle(enabled, limits, cur_angle,
                           NextAngle(cur_angle, target_angle, StepDeg(speed_dps)), ok)

\* From the early-out test to the reschedule.
TickBody ==
    /\ returned' = NoReturn
    /\ tick_pc = "body"
    /\ tick_pc' = "unlock"
    /\ \E ok \in HwOutcomes : \E r \in {TickApply(ok)} :
        /\ cur_angle' = r.cur
        /\ tick_ret' = r.ret
        /\ BackendAfterApply(r, enabled, "tick")
        /\ pending' = TickResched(enabled, speed_dps, r.cur, target_angle, pending)
    /\ meter' = IF meter.on THEN [meter EXCEPT !.n = @ + 1] ELSE meter
    /\ UNCHANGED <<dev, enabled, target_angle, speed_dps, limits, lock, caller, pwm_on,
                   quiet>>

\* mutex_unlock(&sd->lock)
TickUnlock ==
    /\ returned' = NoReturn
    /\ tick_pc = "unlock"
    /\ lock' = "free"
    /\ tick_pc' = "ret"
    /\ tick_ret' = "OK"
    /\ hw_calls' = <<>>
    /\ UNCHANGED <<dev, sd_vars, pending, caller, hw_vars, quiet, meter>>

\* The work function returns: the work item is no longer running.
TickReturn ==
    /\ returned' = NoReturn
    /\ tick_pc = "ret"
    /\ tick_pc' = "idle"
    /\ hw_calls' = <<>>
    /\ UNCHANGED <<dev, sd_vars, lock, pending, tick_ret, caller, hw_vars, quiet, meter>>

(***************************************************************************)
(* The requests of the callers.                                            *)
(***************************************************************************)
NarrowLimits ==
    [min_angle |-> 89, max_angle |-> 92,
     min_pulse_ns |-> U32(500000), max_pulse_ns |-> U32(2500000)]

BadAngleLimits == [DefaultLimits EXCEPT !.min_angle = 10, !.max_angle = 10]

BadPulseLimits ==
    [DefaultLimits EXCEPT !.min_pulse_ns = U32(2000000), !.max_pulse_ns = U32(1000000)]

EnableArgs == {0, 1}

AngleArgs == {88, 93}

SpeedArgs == {-1, 40, 90}

LimitArgs == {DefaultLimits, NarrowLimits, BadAngleLimits, BadPulseLimits}

Request(c, v, l) == [cmd |-> c, val |-> v, lims |-> l]

Requests ==
    {Request("ENABLE", v, ZeroLimits) : v \in EnableArgs}
    \cup {Request("SET_ANGLE", v, ZeroLimits) : v \in AngleArgs}
    \cup {Request("SET_SPEED", v, ZeroLimits) : v \in SpeedArgs}
    \cup {Request("SET_LIMITS", 0, l) : l \in LimitArgs}
    \cup {Request(c, 0, ZeroLimits) : c \in {"GET_ANGLE", "GET_SPEED", "GET_LIMITS"}}

\* LimitsRejected without the test of the pulse widths.
LimitsRejected_NoPulseTest(l) == l.max_angle <= l.min_angle

\* The -EINVAL tests of SERVO_IOCTL_SET_LIMITS.
LimitsRejected(l) ==
    \/ l.max_angle <= l.min_angle
    \/ U32Le(l.max_pulse_ns, l.min_pulse_ns)

(***************************************************************************)
(* servo_unlocked_ioctl                                                    *)
(***************************************************************************)
\* A caller enters the ioctl with a request that reaches mutex_lock.  Its request
\* (cmd and the val or lims copied from the user) is seen by nobody until it holds
\* the lock, and is recorded there.
IoctlEntry(t) ==
    /\ returned' = NoReturn
    /\ dev = "ready"
    /\ ~quiet
    /\ caller[t].pc = "idle"
    /\ caller' = [caller EXCEPT ![t].pc = "lock"]
    /\ hw_calls' = <<>>
    /\ UNCHANGED <<dev, sd_vars, lock, tick_vars, hw_vars, quiet, meter>>

\* SERVO_IOCTL_SET_LIMITS with malformed limits: -EINVAL before the lock.
IoctlRejectLimits(t) ==
    /\ dev = "ready"
    /\ ~quiet
    /\ caller[t].pc = "idle"
    /\ \E l \in LimitArgs :
        /\ LimitsRejected(l)
        /\ returned' = Returned(t, "SET_LIMITS", "EINVAL", FALSE, 0, ZeroLimits)
    /\ hw_calls' = <<>>
    /\ UNCHANGED <<dev, sd_vars, lock, tick_vars, caller, hw_vars, quiet, meter>>

\* mutex_lock(&sd->lock)
IoctlLock(t) ==
    /\ returned' = NoReturn
    /\ caller[t].pc = "lock"
    /\ lock = "free"
    /\ lock' = "ioctl"
    /\ \E q \in Requests :
        /\ q.cmd = "SET_LIMITS" => ~LimitsRejected(q.lims)
        /\ caller' = [caller EXCEPT ![t] =
                        [IdleCaller EXCEPT !.pc = "body", !.cmd = q.cmd, !.val = q.val,
                                           !.lims = q.lims]]
    /\ hw_calls' = <<>>
    /\ UNCHANGED <<dev, sd_vars, tick_vars, hw_vars, quiet, meter>>

\* mutex_unlock(&sd->lock) and return ret: the caller has the result (with the val
\* or lims of a GET, 0 and ZeroLimits for the other commands) and may issue its
\* next request.
Unlocked(t, retv, failed, v, l) ==
    /\ lock' = "free"
    /\ caller' = [caller EXCEPT ![t] = IdleCaller]
    /\ returned' = Returned(t, caller[t].cmd, retv, failed, v, l)

InBody(t, c) == caller[t].pc = "body" /\ caller[t].cmd = c

\* IoctlEnableOn without the kick of the motion loop.
IoctlEnableOn_NoKick(t) ==
    /\ InBody(t, "ENABLE")
    /\ caller[t].val # 0 /\ enabled = 0
    /\ \E ok1 \in HwOutcomes, ok2 \in HwOutcomes :
        IF ok1
        THEN LET r == servo_apply_angle(1, limits, cur_angle, cur_angle, ok2)
             IN  /\ enabled' = 1
                 /\ pwm_on' = TRUE
                 /\ cur_angle' = r.cur
                 /\ pwm_duty' = IF r.hw /\ r.ret = "OK" THEN r.duty ELSE pwm_duty
                 /\ hw_calls' = <<HwCall("enable", U32(0), TRUE, enabled, "ioctl")>>
                                \o (IF r.hw THEN <<HwCall("config", r.duty, r.ret = "OK", 1, "ioctl")>>
                                    ELSE <<>>)
                 /\ Unlocked(t, "OK", r.ret # "OK", 0, ZeroLimits)
        ELSE /\ ok2
             /\ hw_calls' = <<HwCall("enable", U32(0), FALSE, enabled, "ioctl")>>
             /\ Unlocked(t, "HWERR", TRUE, 0, ZeroLimits)
             /\ UNCHANGED <<enabled, pwm_on, cur_angle, pwm_duty>>
    /\ UNCHANGED <<dev, target_angle, speed_dps, limits, tick_vars, quiet, meter>>

\* SERVO_IOCTL_ENABLE, val && !sd->enabled
IoctlEnableOn(t) ==
    /\ InBody(t, "ENABLE")
    /\ caller[t].val # 0 /\ enabled = 0
    /\ \E ok1 \in HwOutcomes, ok2 \in HwOutcomes :
        IF ok1
        THEN LET r == servo_apply_angle(1, limits, cur_angle, cur_angle, ok2)
             IN  /\ enabled' = 1
                 /\ pwm_on' = TRUE
                 /\ cur_angle' = r.cur
                 /\ pwm_duty' = IF r.hw /\ r.ret = "OK" THEN r.duty ELSE pwm_duty
                 /\ hw_calls' = <<HwCall("enable", U32(0), TRUE, enabled, "ioctl")>>
                                \o (IF r.hw THEN <<HwCall("config", r.duty, r.ret = "OK", 1, "ioctl")>>
                                    ELSE <<>>)
                 /\ pending' = IF speed_dps > 0 THEN TRUE ELSE pending
                 /\ Unlocked(t, "OK", r.ret # "OK", 0, ZeroLimits)
        ELSE /\ ok2
             /\ hw_calls' = <<HwCall("enable", U32(0), FALSE, enabled, "ioctl")>>
             /\ Unlocked(t, "HWERR", TRUE, 0, ZeroLimits)
             /\ UNCHANGED <<enabled, pwm_on, cur_angle, pwm_duty, pending>>
    /\ UNCHANGED <<dev, target_angle, speed_dps, limits, tick_pc, tick_ret, quiet, meter>>

\* SERVO_IOCTL_ENABLE, !val && sd->enabled: cancel_delayed_work_sync first takes
\* the work item off the queue ...
IoctlDisableCancel(t) ==
    /\ returned' = NoReturn
    /\ InBody(t, "ENABLE")
    /\ caller[t].val = 0 /\ enabled # 0
    /\ pending' = FALSE
    /\ caller' = [caller EXCEPT ![t].pc = "flush"]
    /\ hw_calls' = <<>>
    /\ UNCHANGED <<dev, sd_vars, lock, tick_pc, tick_ret, hw_vars, quiet, meter>>

\* ... then waits until the work function is not running; pwm_disable, enabled = 0.
IoctlDisableFinish(t) ==
    /\ caller[t].pc = "flush"
    /\ tick_pc = "idle"
    /\ pwm_on' = FALSE
    /\ hw_calls' = <<HwCall("disable", U32(0), TRUE, enabled, "ioctl")>>
    /\ enabled' = 0
    /\ Unlocked(t, "OK", FALSE, 0, ZeroLimits)
    /\ UNCHANGED <<dev, cur_angle, target_angle, speed_dps, limits, tick_vars, pwm_duty,
                   quiet, meter>>

\* SERVO_IOCTL_ENABLE that finds the servo already in the requested state.
IoctlEnableSame(t) ==
    /\ InBody(t, "ENABLE")
    /\ (caller[t].val # 0) = (enabled # 0)
    /\ Unlocked(t, "OK", FALSE, 0, ZeroLimits)
    /\ hw_calls' = <<>>
    /\ UNCHANGED <<dev, sd_vars, tick_vars, hw_vars, quiet, meter>>

\* ClampAngle without the test against max_angle.
ClampAngle_LowerOnly(lim, v) == IF v < lim.min_angle THEN lim.min_angle ELSE v

\* val of SERVO_IOCTL_SET_ANGLE after the two clamping tests.
ClampAngle(lim, v) ==
    LET v1 == IF v < lim.min_angle THEN lim.min_angle ELSE v
    IN  IF v1 > lim.max_angle THEN lim.max_angle ELSE v1

\* IoctlSetAngle without the early return for the disabled servo.
IoctlSetAngle_NoDisabledReturn(t) ==
    /\ InBody(t, "SET_ANGLE")
    /\ LET val == ClampAngle(limits, caller[t].val)
       IN  /\ target_angle' = val
           /\ IF speed_dps = 0
              THEN \E ok \in HwOutcomes :
                    LET r == servo_apply_angle(enabled, limits, cur_angle, val, ok)
                    IN  /\ cur_angle' = r.cur
                        /\ BackendAfterApply(r, enabled, "ioctl")
                        /\ Unlocked(t, r.ret, r.ret # "OK", 0, ZeroLimits)
                        /\ UNCHANGED pending
              ELSE /\ pending' = TRUE
                   /\ Unlocked(t, "OK", FALSE, 0, ZeroLimits)
                   /\ hw_calls' = <<>>
                   /\ UNCHANGED <<cur_angle, pwm_duty>>
    /\ UNCHANGED <<dev, enabled, speed_dps, limits, tick_pc, tick_ret, pwm_on, quiet,
                   meter>>

\* SERVO_IOCTL_SET_ANGLE
IoctlSetAngle(t) ==
    /\ InBody(t, "SET_ANGLE")
    /\ LET val == ClampAngle(limits, caller[t].val)
       IN  /\ target_angle' = val
           /\ IF enabled = 0
              THEN /\ Unlocked(t, "OK", FALSE, 0, ZeroLimits)
                   /\ hw_calls' = <<>>
                   /\ UNCHANGED <<cur_angle, pending, pwm_duty>>
              ELSE IF speed_dps = 0
              THEN \E ok \in HwOutcomes :
                    LET r == servo_apply_angle(enabled, limits, cur_angle, val, ok)
                    IN  /\ cur_angle' = r.cur
                        /\ BackendAfterApply(r, enabled, "ioctl")
                        /\ Unlocked(t, r.ret, r.ret # "OK", 0, ZeroLimits)
                        /\ UNCHANGED pending
              ELSE /\ pending' = TRUE
                   /\ Unlocked(t, "OK", FALSE, 0, ZeroLimits)
                   /\ hw_calls' = <<>>
                   /\ UNCHANGED <<cur_angle, pwm_duty>>
    /\ UNCHANGED <<dev, enabled, speed_dps, limits, tick_pc, tick_ret, pwm_on, quiet,
                   meter>>

\* SERVO_IOCTL_GET_ANGLE
IoctlGetAngle(t) ==
    /\ InBody(t, "GET_ANGLE")
    /\ Unlocked(t, "OK", FALSE, cur_angle, ZeroLimits)
    /\ hw_calls' = <<>>
    /\ UNCHANGED <<dev, sd_vars, tick_vars, hw_vars, quiet, meter>>

\* SERVO_IOCTL_SET_SPEED
IoctlSetSpeed(t) ==
    /\ InBody(t, "SET_SPEED")
    /\ LET speed == IF caller[t].val < 0 THEN 0 ELSE caller[t].val
       IN  /\ speed_dps' = speed
           /\ pending' = IF enabled # 0 /\ speed > 0 /\ cur_angle # target_angle
                         THEN TRUE ELSE pending
    /\ Unlocked(t, "OK", FALSE, 0, ZeroLimits)
    /\ hw_calls' = <<>>
    /\ UNCHANGED <<dev, enabled, cur_angle, target_angle, limits, tick_pc, tick_ret,
                   hw_vars, quiet, meter>>

\* SERVO_IOCTL_GET_SPEED
IoctlGetSpeed(t) ==
    /\ InBody(t, "GET_SPEED")
    /\ Unlocked(t, "OK", FALSE, speed_dps, ZeroLimits)
    /\ hw_calls' = <<>>
    /\ UNCHANGED <<dev, sd_vars, tick_vars, hw_vars, quiet, meter>>

\* IoctlSetLimits re-applying with a pwm_config of its own, whatever sd->enabled is.
IoctlSetLimits_ReapplyDirect(t) ==
    /\ InBody(t, "SET_LIMITS")
    /\ limits' = caller[t].lims
    /\ \E ok \in HwOutcomes :
        LET r == [hw |-> TRUE, duty |-> map_angle_to_pulse_ns(caller[t].lims, cur_angle),
                  ret |-> IF ok THEN "OK" ELSE "HWERR", cur |-> cur_angle]
        IN  /\ cur_angle' = r.cur
            /\ BackendAfterApply(r, enabled, "ioctl")
            /\ Unlocked(t, r.ret, r.ret # "OK", 0, ZeroLimits)
    /\ UNCHANGED <<dev, enabled, target_angle, speed_dps, tick_vars, pwm_on, quiet, meter>>

\* SERVO_IOCTL_SET_LIMITS, past the -EINVAL tests
IoctlSetLimits(t) ==
    /\ InBody(t, "SET_LIMITS")
    /\ limits' = caller[t].lims
    /\ \E ok \in HwOutcomes :
        LET r == IF enabled # 0
                 THEN servo_apply_angle(enabled, caller[t].lims, cur_angle, cur_angle, ok)
                 ELSE [hw |-> FALSE, duty |-> U32(0), ret |-> "OK", cur |-> cur_angle]
        IN  /\ cur_angle' = r.cur
            /\ BackendAfterApply(r, enabled, "ioctl")
            /\ Unlocked(t, r.ret, r.ret # "OK", 0, ZeroLimits)
    /\ UNCHANGED <<dev, enabled, target_angle, speed_dps, tick_vars, pwm_on, quiet, meter>>

\* SERVO_IOCTL_GET_LIMITS
IoctlGetLimits(t) ==
    /\ InBody(t, "GET_LIMITS")
    /\ Unlocked(t, "OK", FALSE, 0, limits)
    /\ hw_calls' = <<>>
    /\ UNCHANGED <<dev, sd_vars, tick_vars, hw_vars, quiet, meter>>

(***************************************************************************)
(* The client stops: no further commands, and the backend no longer fails. *)
(***************************************************************************)
Quiesce ==
    /\ returned' = NoReturn
    /\ dev = "ready"
    /\ ~quiet
    /\ quiet' = TRUE
    /\ hw_calls' = <<>>
    /\ UNCHANGED <<dev, sd_vars, lock, tick_vars, caller, hw_vars, meter>>

Ioctl(t) ==
    \/ IoctlEntry(t)
    \/ IoctlRejectLimits(t)
    \/ IoctlLock(t)
    \/ IoctlEnableOn(t)
    \/ IoctlDisableCancel(t)
    \/ IoctlDisableFinish(t)
    \/ IoctlEnableSame(t)
    \/ IoctlSetAngle(t)
    \/ IoctlGetAngle(t)
    \/ IoctlSetSpeed(t)
    \/ IoctlGetSpeed(t)
    \/ IoctlSetLimits(t)
    \/ IoctlGetLimits(t)

Tick == TickFire \/ TickLock \/ TickBody \/ TickUnlock \/ TickReturn

Next ==
    \/ Probe
    \/ \E t \in Callers : Ioctl(t)
    \/ Tick

Spec == Init /\ [][Next]_vars

(***************************************************************************)
(* The commands stop at some point: the workqueue still runs every queued  *)
(* work item and a free mutex is eventually taken by the waiting worker.   *)
(***************************************************************************)
NextLive == Next \/ Quiesce

FairSpec ==
    /\ Init
    /\ [][NextLive]_vars
    /\ WF_vars(TickFire)
    /\ WF_vars(TickLock)
    /\ WF_vars(TickBody)
    /\ WF_vars(TickUnlock)
    /\ WF_vars(TickReturn)

(***************************************************************************)
(* Motion runs: the states right after a SET_ANGLE on the enabled servo    *)
(* with a positive speed has queued the tick, and then only ticks.         *)
(***************************************************************************)
MotionSpeeds == {1, 40, 90, 125, 214748365}

MotionWindow == (DEFAULT_ANGLE - MotionSpan) .. (DEFAULT_ANGLE + MotionSpan)

MotionStarts ==
    {<<DEFAULT_MIN_ANGLE, DEFAULT_MAX_ANGLE>>, <<DEFAULT_MAX_ANGLE, DEFAULT_MIN_ANGLE>>}
    \cup {m \in MotionWindow \X MotionWindow : m[1] # m[2]}

InitMotion ==
    /\ dev = "ready"
    /\ enabled = 1
    /\ limits = DefaultLimits
    /\ speed_dps \in MotionSpeeds
    /\ \E m \in MotionStarts :
        /\ cur_angle = m[1]
        /\ target_angle = m[2]
        /\ pwm_duty = map_angle_to_pulse_ns(DefaultLimits, m[1])
        /\ meter = [on |-> TRUE, from |-> m[1], n |-> 0]
    /\ lock = "free"
    /\ pending = TRUE
    /\ tick_pc = "idle"
    /\ tick_ret = "OK"
    /\ caller = [t \in Callers |-> IdleCaller]
    /\ returned = NoReturn
    /\ pwm_on = TRUE
    /\ hw_calls = <<>>
    /\ quiet = TRUE

SpecMotion == InitMotion /\ [][Tick]_vars

(***************************************************************************)
(* Teardown: servo_remove runs beside the commands that were already in     *)
(* the ioctl when it started.  It does not take sd->lock.                   *)
(***************************************************************************)
\* cancel_delayed_work_sync(&sd->motion_work) returns: at that moment the work item
\* is neither queued nor running.
RemoveCancel ==
    /\ dev = "ready"
    /\ tick_pc = "idle"
    /\ pending' = FALSE
    /\ dev' = "removing"
    /\ hw_calls' = <<>>
    /\ returned' = NoReturn
    /\ UNCHANGED <<sd_vars, lock, tick_pc, tick_ret, caller, hw_vars, quiet, meter>>

\* if (sd->enabled) pwm_disable(sd->pwm); then the device node goes away.
RemoveDisable ==
    /\ dev = "removing"
    /\ dev' = "removed"
    /\ pwm_on' = IF enabled # 0 THEN FALSE ELSE pwm_on
    /\ hw_calls' = IF enabled # 0
                   THEN <<HwCall("disable", U32(0), TRUE, enabled, "remove")>>
                   ELSE <<>>
    /\ returned' = NoReturn
    /\ UNCHANGED <<sd_vars, lock, tick_vars, caller, pwm_duty, quiet, meter>>

Remove == RemoveCancel \/ RemoveDisable

NextRemove == Next \/ Remove

SpecRemove == Init /\ [][NextRemove]_vars

(***************************************************************************)
(* Mapping runs: the enabled servo at speed_dps = 0 under some accepted     *)
(* limits, and then only SET_ANGLE commands whose pwm_config succeeds, so   *)
(* that every angle is mapped and written.                                 *)
(***************************************************************************)
\* Limits SET_LIMITS accepts whose pulse span times the angle range exceeds 2^32.
WideLimits ==
    [min_angle |-> DEFAULT_MIN_ANGLE, max_angle |-> DEFAULT_MAX_ANGLE,
     min_pulse_ns |-> U32(1000000), max_pulse_ns |-> U32(25000000)]

MapLimits == {DefaultLimits, NarrowLimits, WideLimits}

MapAngleArgs == (DEFAULT_MIN_ANGLE - 1) .. (DEFAULT_MAX_ANGLE + 1)

InitMap ==
    /\ dev = "ready"
    /\ enabled = 1
    /\ limits \in MapLimits
    /\ speed_dps = 0
    /\ cur_angle = DEFAULT_ANGLE
    /\ target_angle = DEFAULT_ANGLE
    /\ pwm_duty = map_angle_to_pulse_ns(limits, DEFAULT_ANGLE)
    /\ lock = "free"
    /\ pending = FALSE
    /\ tick_pc = "idle"
    /\ tick_ret = "OK"
    /\ caller = [t \in Callers |-> IdleCaller]
    /\ returned = NoReturn
    /\ pwm_on = TRUE
    /\ hw_calls = <<>>
    /\ quiet = TRUE
    /\ meter = MeterOff

\* SERVO_IOCTL_SET_ANGLE from its mutex_lock to its return, on the enabled servo
\* with speed_dps = 0.
SetAngleJump(t, v) ==
    /\ lock = "free"
    /\ caller[t].pc = "idle"
    /\ enabled # 0 /\ speed_dps = 0
    /\ \E ok \in HwOutcomes :
        \E r \in {servo_apply_angle(enabled, limits, cur_angle, ClampAngle(limits, v), ok)} :
            /\ target_angle' = ClampAngle(limits, v)
            /\ cur_angle' = r.cur
            /\ BackendAfterApply(r, enabled, "ioctl")
            /\ returned' = Returned(t, "SET_ANGLE", r.ret, r.ret # "OK", 0, ZeroLimits)
    /\ UNCHANGED <<dev, enabled, speed_dps, limits, lock, tick_vars, caller, pwm_on, quiet,
                   meter>>

NextMap == \E t \in Callers, v \in MapAngleArgs : SetAngleJump(t, v)

SpecMap == InitMap /\ [][NextMap]_vars

(***************************************************************************)
(* Properties.                                                             *)
(***************************************************************************)
AngleWithin(lim, a) == lim.min_angle <= a /\ a <= lim.max_angle

\* C1: between operations (the device is up and nobody holds the lock), cur_angle
\* and target_angle both lie within [limits.min_angle, limits.max_angle].
C1_AnglesWithinLimits ==
    (dev = "ready" /\ lock = "free")
        => (AngleWithin(limits, cur_angle) /\ AngleWithin(limits, target_angle))

\* C2: the disabling command and the tick never wait on each other: no state has
\* a caller inside cancel_delayed_work_sync (holding the lock, waiting for the
\* running tick) while the running tick waits for the lock.
C2_DisableNeverWaitsOnTick ==
    ~(\E t \in Callers : caller[t].pc = "flush" /\ tick_pc = "lock" /\ lock = "ioctl")

\* C3 as stated: no pwm_config is ever issued while sd->enabled is 0, by a
\* command, a tick or the initialization.
C3_NoWriteWhileDisabled ==
    \A i \in DOMAIN hw_calls :
        hw_calls[i].op = "config" => hw_calls[i].sd_enabled # 0

\* C3 as amended: apart from the one pwm_config servo_probe makes for the default
\* angle, no pwm_config is issued while sd->enabled is 0, by any command or tick.
C3_NoWriteWhileDisabledAfterProbe ==
    \A i \in DOMAIN hw_calls :
        (hw_calls[i].op = "config" /\ hw_calls[i].by # "probe")
            => hw_calls[i].sd_enabled # 0

\* A SET_LIMITS that succeeded on the disabled servo and wrote nothing.
C3_Witness ==
    /\ returned.by \in Callers /\ returned.cmd = "SET_LIMITS" /\ returned.ret = "OK"
    /\ enabled = 0
    /\ limits = NarrowLimits
    /\ hw_calls = <<>>

\* C4: every step that ends with the servo disabled (the disabling step itself, and
\* every later SET_ANGLE, SET_SPEED, SET_LIMITS, tick or return) leaves cur_angle as
\* it was, no tick pending and none running; the disabling step keeps target_angle.
C4_DisabledStaysPut ==
    [][(dev = "ready" /\ enabled' = 0)
          => /\ cur_angle' = cur_angle
             /\ ~pending'
             /\ tick_pc' = "idle"
             /\ (enabled # 0 => target_angle' = target_angle)]_vars

\* set_enabled(false) has just returned with a motion in flight.
C4_Witness ==
    /\ returned.by \in Callers /\ returned.cmd = "ENABLE" /\ returned.ret = "OK"
    /\ Len(hw_calls) = 1 /\ hw_calls[1].op = "disable"
    /\ enabled = 0
    /\ speed_dps > 0
    /\ cur_angle # target_angle
    /\ cur_angle # DEFAULT_ANGLE

\* C8: a tick whose pwm_config fails does not arrange a further tick (which would
\* issue the write again without any new command).
C8_FailedTickNotRescheduled ==
    [][(tick_pc = "body" /\ tick_pc' = "unlock" /\ tick_ret' = "HWERR")
          => pending' = pending]_vars

\* C9: a command during which a backend call failed returns that error.
C9_HwFailureReturned ==
    (returned.by \in Callers /\ returned.hw_failed) => returned.ret = "HWERR"

\* C10: a command that returns a hardware error leaves the servo state (enabled,
\* cur_angle, target_angle, speed_dps, limits) as it was when the command began.
C10_ErrorLeavesStateUnchanged ==
    [][\A t \in Callers :
          (caller[t].pc = "body" /\ returned'.by = t /\ returned'.ret = "HWERR")
              => SdState' = SdState]_vars

Abs(x) == IF x < 0 THEN -x ELSE x

AllIdle == \A t \in Callers : caller[t].pc = "idle"

\* C5: an ENABLE(1) on the disabled servo whose pwm_enable succeeds sets enabled,
\* issues the pwm_config for cur_angle (which stays) while no tick is running, and
\* queues the tick if speed_dps > 0; and once the commands and the backend failures
\* have stopped, an enabled servo with speed_dps > 0 reaches cur_angle = target_angle.
C5_EnableReappliesAndResumes ==
    /\ [][\A t \in Callers :
            (/\ InBody(t, "ENABLE") /\ caller[t].val # 0 /\ enabled = 0
             /\ returned'.by = t
             /\ hw_calls'[1].ok)
                => /\ enabled' = 1
                   /\ returned'.ret = "OK"
                   /\ Len(hw_calls') = 2
                   /\ hw_calls'[2].op = "config"
                   /\ hw_calls'[2].duty = map_angle_to_pulse_ns(limits, cur_angle)
                   /\ cur_angle' = cur_angle
                   /\ tick_pc' = "idle"
                   /\ (speed_dps > 0 => pending')]_vars
    /\ (quiet /\ AllIdle /\ enabled # 0 /\ speed_dps > 0) ~> (cur_angle = target_angle)

\* ENABLE(1) has just returned on a servo that was disabled with a motion
\* outstanding and a positive speed, after the last command was issued.
C5_Witness ==
    /\ quiet
    /\ returned.by \in Callers /\ returned.cmd = "ENABLE" /\ returned.ret = "OK"
    /\ enabled # 0 /\ speed_dps > 0
    /\ cur_angle # target_angle
    /\ pending
    /\ Len(hw_calls) = 2 /\ hw_calls[1].op = "enable" /\ hw_calls[2].ok

\* C6: moving 0 -> 180 at 90 deg/s, every tick advances by exactly 2 degrees,
\* the tick is queued again as long as 180 is not reached, and the tick that
\* reaches 180 is the 90th and does not queue another.
C6_NinetyTicksOfTwo ==
    (meter.on /\ meter.from = 0 /\ target_angle = 180 /\ speed_dps = 90)
        => /\ cur_angle = 2 * meter.n
           /\ meter.n <= 90
           /\ (cur_angle = 180 => (~pending /\ meter.n = 90))
           /\ ((cur_angle # 180 /\ tick_pc \in {"unlock", "ret", "idle"}) => pending)
           /\ ((tick_pc = "idle" /\ ~pending) => cur_angle = 180)

\* The 0 -> 180 run has gone idle at 180.
C6_Witness ==
    /\ meter.on /\ meter.from = 0 /\ target_angle = 180 /\ speed_dps = 90
    /\ cur_angle = 180 /\ meter.n = 90
    /\ tick_pc = "idle" /\ ~pending

\* C7: in a motion run with step = the tick's step for speed_dps (>= 1), after n
\* ticks cur_angle has moved min(n * step, |delta|) from its start toward the
\* target and never past it; a tick is queued or running while the target is not
\* reached, and the target is reached with exactly ceil(|delta| / step) ticks run
\* and nothing queued.
C7_BoundedMotion ==
    meter.on =>
        LET step  == StepDeg(speed_dps)
            d0    == Abs(target_angle - meter.from)
            moved == Abs(cur_angle - meter.from)
            need  == (d0 + step - 1) \div step
        IN  /\ step >= 1
            /\ moved = Min(meter.n * step, d0)
            /\ Abs(target_angle - cur_angle) = d0 - moved
            /\ meter.n <= need
            /\ (cur_angle # target_angle => (pending \/ tick_pc \in {"lock", "body"}))
            /\ (cur_angle = target_angle => (meter.n = need /\ ~pending))

\* A downward run of several ticks whose last tick moved by less than the step.
C7_Witness ==
    /\ meter.on
    /\ cur_angle = target_angle /\ target_angle < meter.from
    /\ StepDeg(speed_dps) >= 2
    /\ (meter.from - target_angle) % StepDeg(speed_dps) # 0
    /\ meter.n >= 2
    /\ tick_pc = "idle" /\ ~pending

\* Limits with min_angle < max_angle and min_pulse_ns < max_pulse_ns.
WellFormed(l) ==
    /\ l.min_angle < l.max_angle
    /\ ~U32Le(l.max_pulse_ns, l.min_pulse_ns)

\* C11: the limits in force are never malformed (a SET_LIMITS with max_angle <=
\* min_angle or max_pulse_ns <= min_pulse_ns is never stored); the step in which a
\* SET_LIMITS returns the validation error makes no backend call and changes no
\* field of the servo state, nor the lock or the work item; and a GET_LIMITS
\* returns the limits in force, so after a rejection those from before it.
C11_BadLimitsRejected ==
    /\ [](dev = "ready" => WellFormed(limits))
    /\ [][(returned'.cmd = "SET_LIMITS" /\ returned'.ret = "EINVAL")
            => /\ SdState' = SdState
               /\ hw_calls' = <<>>
               /\ UNCHANGED <<lock, tick_vars, hw_vars>>]_vars
    /\ [](returned.cmd = "GET_LIMITS" => (returned.ret = "OK" /\ returned.lims = limits))

\* A malformed SET_LIMITS has just been rejected on the enabled, moving servo
\* whose limits are not the defaults.
C11_Witness ==
    /\ returned.cmd = "SET_LIMITS" /\ returned.ret = "EINVAL"
    /\ enabled # 0 /\ speed_dps > 0 /\ cur_angle # target_angle
    /\ limits = NarrowLimits

Max(a, b) == IF a > b THEN a ELSE b

\* The step in which caller t returns from the command c.
Returns(t, c) == InBody(t, c) /\ returned'.by = t

\* What C12 says of the step in which a SET_ANGLE returns, but for its result:
\* target_angle is the requested angle clamped into the limits in force, and on the
\* disabled servo nothing else changes and no backend call is made.
SetAngleStores(t) ==
    /\ target_angle' = Max(limits.min_angle, Min(caller[t].val, limits.max_angle))
    /\ enabled = 0 => /\ hw_calls' = <<>>
                      /\ UNCHANGED <<enabled, cur_angle, speed_dps, limits, tick_vars,
                                     hw_vars>>

\* C12 as stated: every SET_ANGLE stores the clamped angle (on the disabled servo
\* changing nothing else and calling no backend) and returns success, in every state.
C12_SetAngleClampsAndSucceeds ==
    [][\A t \in Callers :
          Returns(t, "SET_ANGLE") => (SetAngleStores(t) /\ returned'.ret = "OK")]_vars

\* C12 as amended: every SET_ANGLE stores the clamped angle (on the disabled servo
\* changing nothing else and calling no backend) and returns success, except that
\* it returns the error of its pwm_config when that call fails (enabled servo,
\* speed_dps = 0); on the disabled servo it always returns success.
C12_SetAngleClampsAndSucceedsUnlessHwFails ==
    [][\A t \in Callers :
          Returns(t, "SET_ANGLE")
              => /\ SetAngleStores(t)
                 /\ (returned'.ret = "OK") <=> (\A i \in DOMAIN hw_calls' : hw_calls'[i].ok)
                 /\ enabled = 0 => returned'.ret = "OK"]_vars

\* A SET_ANGLE of 93 has just returned success on the disabled servo under the
\* limits [89, 92]: 92 is stored, the position is elsewhere.
C12_Witness ==
    /\ returned.cmd = "SET_ANGLE" /\ returned.ret = "OK"
    /\ enabled = 0
    /\ limits = NarrowLimits
    /\ target_angle = 92
    /\ cur_angle # 92
    /\ hw_calls = <<>>

\* C13: a SET_ANGLE on the enabled servo with speed_dps = 0 in which no backend
\* call fails makes exactly one backend call, the pwm_config for the stored target,
\* returns success with cur_angle = target_angle, and queues no tick.
C13_JumpAtSpeedZero ==
    [][\A t \in Callers :
          (/\ Returns(t, "SET_ANGLE")
           /\ enabled # 0 /\ speed_dps = 0
           /\ \A i \in DOMAIN hw_calls' : hw_calls'[i].ok)
              => /\ Len(hw_calls') = 1
                 /\ hw_calls'[1].op = "config"
                 /\ hw_calls'[1].duty = map_angle_to_pulse_ns(limits, target_angle')
                 /\ returned'.ret = "OK"
                 /\ cur_angle' = target_angle'
                 /\ pending' = pending
                 /\ tick_pc' = tick_pc]_vars

\* A SET_ANGLE has just jumped the enabled servo at speed 0 to a new position.
C13_Witness ==
    /\ returned.cmd = "SET_ANGLE" /\ returned.ret = "OK"
    /\ enabled # 0 /\ speed_dps = 0
    /\ Len(hw_calls) = 1 /\ hw_calls[1].ok
    /\ cur_angle = target_angle /\ cur_angle # DEFAULT_ANGLE
    /\ ~pending /\ tick_pc = "idle"

\* The tick body runs and finds nothing to do.
NoOpTick ==
    /\ tick_pc = "body" /\ tick_pc' = "unlock"
    /\ (enabled = 0 \/ speed_dps = 0 \/ cur_angle = target_angle)

\* C14 as stated: a tick that finds the servo disabled, speed_dps = 0 or cur_angle =
\* target_angle makes no backend call, changes no field of the servo state and does
\* not queue itself, and no tick is queued when it is done (the loop is idle).
C14_NoOpTickLeavesLoopIdle ==
    [][NoOpTick => /\ hw_calls' = <<>>
                   /\ SdState' = SdState
                   /\ UNCHANGED hw_vars
                   /\ ~pending']_vars

\* C14 as amended: such a tick makes no backend call, changes no field of the servo
\* state and does not queue itself: the work item is queued afterwards only if a
\* command queued it again after this tick had started.
C14_NoOpTickQueuesNothing ==
    [][NoOpTick => /\ hw_calls' = <<>>
                   /\ SdState' = SdState
                   /\ UNCHANGED hw_vars
                   /\ pending' = pending]_vars

\* A tick has just run on the enabled servo with a motion outstanding and
\* speed_dps = 0 (SET_SPEED 0 arrived after the tick was queued): nothing is queued.
C14_Witness ==
    /\ tick_pc = "unlock"
    /\ enabled # 0 /\ speed_dps = 0 /\ cur_angle # target_angle
    /\ hw_calls = <<>>
    /\ ~pending

\* C15: under accepted limits the pulse written for cur_angle lies within
\* [min_pulse_ns, max_pulse_ns], is min_pulse_ns at min_angle and max_pulse_ns at
\* max_angle exactly, and a write for an angle that is not smaller than the angle
\* of the write before it (same limits) is not a shorter pulse.
C15_MapMonotoneExactInRange ==
    /\ [](WellFormed(limits)
            => /\ pwm_duty = map_angle_to_pulse_ns(limits, cur_angle)
               /\ U32Le(limits.min_pulse_ns, pwm_duty)
               /\ U32Le(pwm_duty, limits.max_pulse_ns)
               /\ (cur_angle = limits.min_angle => pwm_duty = limits.min_pulse_ns)
               /\ (cur_angle = limits.max_angle => pwm_duty = limits.max_pulse_ns))
    /\ [][(limits' = limits /\ cur_angle' >= cur_angle) => U32Le(pwm_duty, pwm_duty')]_vars

\* The tick is between its mutex_lock and its mutex_unlock.
TickInLockedSection == tick_pc \in {"body", "unlock"}

\* Caller t is between the mutex_lock and the mutex_unlock of its command.
CallerInLockedSection(t) == caller[t].pc \in {"body", "flush"}

\* C16: the tick is inside its locked section exactly when it holds the lock, a
\* command inside its locked section holds the lock, so a tick body never overlaps
\* the locked section of a command (nor two commands each other); and an execution
\* of the tick starts only when none is executing, also when the work item was
\* queued again (at zero delay by a command, or by the tick itself) meanwhile.
C16_OneTickAtATime ==
    /\ [](TickInLockedSection <=> lock = "tick")
    /\ [](\A t \in Callers : CallerInLockedSection(t) => lock = "ioctl")
    /\ [](\A t \in Callers : ~(TickInLockedSection /\ CallerInLockedSection(t)))
    /\ [](\A t, u \in Callers :
            (CallerInLockedSection(t) /\ CallerInLockedSection(u)) => t = u)
    /\ [][(tick_pc' = "lock" /\ tick_pc # "lock") => tick_pc = "idle"]_vars

\* The tick body runs while the work item is queued again and a command waits
\* for the lock.
C16_Witness ==
    /\ tick_pc = "body" /\ lock = "tick"
    /\ pending
    /\ \E t \in Callers : caller[t].pc = "lock"

\* C17: servo_remove disables the output only when no tick is queued or running,
\* and once it has, no tick is queued or executes and no pwm_config is issued, also
\* by or after commands that were in the ioctl when the teardown began.
C17_NothingAfterTeardown ==
    /\ [][dev' = "removed" => (~pending /\ tick_pc = "idle")]_vars
    /\ [](dev = "removed"
            => /\ ~pending /\ tick_pc = "idle"
               /\ \A i \in DOMAIN hw_calls : hw_calls[i].op # "config")

\* max(1, round-half-up(speed * 20 / 1000)) of the exact product, for speed > 0:
\* (speed * 20 + 500) / 1000 rounded down is (speed + 25) / 50 rounded down.
ExactStep(speed) == Max(1, (speed + 25) \div 50)

\* C18: for every speed_dps > 0 that SET_SPEED can store, the step of the tick is
\* max(1, round-half-up(speed_dps * 20 / 1000)) of the exact product: the first tick
\* of a motion run moves by min(that step, |delta|), and the step of a smaller
\* speed is never larger.
C18_StepIsExactRounding ==
    (meter.on /\ meter.n = 1)
        => /\ StepDeg(speed_dps) = ExactStep(speed_dps)
           /\ Abs(cur_angle - meter.from)
                = Min(ExactStep(speed_dps), Abs(target_angle - meter.from))
           /\ \A s \in MotionSpeeds : s <= speed_dps => StepDeg(s) <= StepDeg(speed_dps)

\* Motion is outstanding: the servo is enabled with a positive speed and is not at
\* its target.
MotionOutstanding == enabled # 0 /\ speed_dps > 0 /\ cur_angle # target_angle

\* C19: whenever the lock is free and motion is outstanding, the tick is queued or
\* has started and not yet taken the lock (so it will still look at the state).
C19_NoLostWakeup ==
    (dev = "ready" /\ lock = "free" /\ MotionOutstanding)
        => (pending \/ tick_pc = "lock")

\* Motion is outstanding, the lock is free, and the work item has been queued
\* again while its previous execution has released the lock but not yet returned.
C19_Witness ==
    /\ dev = "ready" /\ lock = "free" /\ MotionOutstanding
    /\ tick_pc = "ret"
    /\ pending
    /\ returned.cmd \in {"SET_ANGLE", "SET_SPEED", "ENABLE"}

\* No backend call of the step that led here failed.
NoHwFailure == \A i \in DOMAIN hw_calls : hw_calls[i].ok

\* C20: in a run in which no backend call fails, whenever the lock is free and the
\* servo enabled, the duty last written to the backend is
\* map_angle_to_pulse_ns(limits, cur_angle) for the limits stored, and the output
\* is on.
C20_HardwareAgreesWithState ==
    []NoHwFailure
        => []((dev = "ready" /\ lock = "free" /\ enabled # 0)
                => (pwm_duty = map_angle_to_pulse_ns(limits, cur_angle) /\ pwm_on))

\* ENABLE(1) has just returned without a failure on a servo whose limits were
\* changed while it was disabled: the pulse of cur_angle under the new limits is
\* written, and it is not the pulse under the default limits.
C20_Witness ==
    /\ returned.cmd = "ENABLE" /\ returned.ret = "OK"
    /\ Len(hw_calls) = 2 /\ hw_calls[1].op = "enable" /\ hw_calls[2].ok
    /\ lock = "free" /\ enabled # 0
    /\ limits = NarrowLimits
    /\ pwm_duty = map_angle_to_pulse_ns(NarrowLimits, cur_angle)
    /\ pwm_duty # map_angle_to_pulse_ns(DefaultLimits, cur_angle)

=============================================================================
